---------------------------- MODULE Spec2Model ----------------------------
(***************************************************************************)
(* A model of the statistical estimators of pjxl/utils:                    *)
(*   src/stats/inference/estimation/proportion.py                          *)
(*       sample_size, confint, strat_proportion, strat_confint             *)
(*   src/stats/misc.py                                                     *)
(*       confint, _ztest_p, ztest_2prop, _ttest_p, welch_ttest,            *)
(*       pop_prop_sample_size, pop_prop_confint                            *)
(*                                                                         *)
(* The functions are pure.  The state machine is a caller: from "idle" it  *)
(* calls one function with inputs drawn from bounded sets, the call's      *)
(* arguments, locals and outcome become the state, and Return discards    *)
(* them.                                                                   *)
(*                                                                         *)
(* Numbers.  Python floats are modelled as exact reals: a rational is a    *)
(* record [n, d] in lowest terms, and a real that the code obtains with a  *)
(* square root is kept exactly as a + s*sqrt(r) (a, r rational, r > 0, s  *)
(* in {-1, 1}).  numpy's non-finite results (division by zero, the square  *)
(* root of a negative number) are the tagged values NaN, PInf and NInf.    *)
(* Floating-point rounding is not modelled.  The quantile and tail         *)
(* functions of scipy.stats are tabulated to two decimals.                 *)
(***************************************************************************)
EXTENDS Integers, Sequences, FiniteSets, TLC

VARIABLES pc, op, args, out, prev

vars == <<pc, op, args, out, prev>>

---------------------------------------------------------------------------
(* Bounds of the model.                                                    *)

\* largest finite population size passed to sample_size
MaxPopl == 4
\* largest sample size passed to confint / pop_prop_confint
MaxN == 4
\* largest group size passed to ztest_2prop
MaxCount == 4
\* largest number of observations per group passed to welch_ttest
MaxSamples == 3
\* largest number of strata passed to strat_proportion / strat_confint
MaxStrata == 3

---------------------------------------------------------------------------
(* Rationals: [n |-> numerator, d |-> denominator > 0], in lowest terms.   *)

Abs(x) == IF x < 0 THEN -x ELSE x

Sgn(x) == IF x < 0 THEN -1 ELSE IF x = 0 THEN 0 ELSE 1

RECURSIVE GCD(_, _)
GCD(a, b) == IF b = 0 THEN a ELSE GCD(b, a % b)

\* n/d in lowest terms, d # 0
Rat(n, d) ==
    LET g == GCD(Abs(n), Abs(d))
        s == IF d < 0 THEN -1 ELSE 1
    IN  [n |-> s * (n \div g), d |-> s * (d \div g)]

Int2Rat(i) == [n |-> i, d |-> 1]

Zero == Int2Rat(0)

One == Int2Rat(1)

RNeg(a) == [n |-> -a.n, d |-> a.d]

RAdd(a, b) ==
    LET g == GCD(a.d, b.d)
    IN  Rat(a.n * (b.d \div g) + b.n * (a.d \div g), (a.d \div g) * b.d)

RSub(a, b) == RAdd(a, RNeg(b))

RMul(a, b) ==
    LET g1 == GCD(Abs(a.n), b.d)
        g2 == GCD(Abs(b.n), a.d)
    IN  Rat((a.n \div g1) * (b.n \div g2), (a.d \div g2) * (b.d \div g1))

RInv(a) == Rat(a.d, a.n)

\* a / b for b # 0
RDiv(a, b) == RMul(a, RInv(b))

RSq(a) == RMul(a, a)

RSgn(a) == Sgn(a.n)

RLt(a, b) == RSgn(RSub(a, b)) < 0

RLe(a, b) == RSgn(RSub(a, b)) <= 0

\* sgn(a) * a^2: x |-> sgn(x) * x^2 is strictly increasing
RSignedSq(a) == RMul(Int2Rat(RSgn(a)), RSq(a))

\* math.ceil of a rational
RCeil(a) == -((-a.n) \div a.d)

\* floor of a rational
RFloor(a) == a.n \div a.d

---------------------------------------------------------------------------
(* Reals a + s*sqrt(r), and numpy's non-finite values.                     *)
(*   [k |-> "fin", a, s, r]   a + s*sqrt(r);  s = 0 iff r = 0              *)
(*   [k |-> "nan" | "inf" | "ninf" | "unsupported", ...]                   *)
(* "unsupported" marks a product or sum of two different square roots,     *)
(* which the modelled code never forms.                                     *)

Special(kind) == [k |-> kind, a |-> Zero, s |-> 0, r |-> Zero]

NaN == Special("nan")

PInf == Special("inf")

NInf == Special("ninf")

Unsupported == Special("unsupported")

Surd(a, s, r) ==
    IF s = 0 \/ r.n = 0
    THEN [k |-> "fin", a |-> a, s |-> 0, r |-> Zero]
    ELSE [k |-> "fin", a |-> a, s |-> s, r |-> r]

Fin(q) == Surd(q, 0, Zero)

IsFin(x) == x.k = "fin"

\* the signed square of the root part, s*r
RootSq(x) == RMul(Int2Rat(x.s), x.r)

\* sign of a finite value: s*sqrt(r) against -a, by signed squares
NSgn(x) == RSgn(RAdd(RootSq(x), RSignedSq(x.a)))

NIsZero(x) == IsFin(x) /\ x.s = 0 /\ x.a = Zero

NNeg(x) ==
    CASE x.k = "fin" -> Surd(RNeg(x.a), -x.s, x.r)
      [] x.k = "inf" -> NInf
      [] x.k = "ninf" -> PInf
      [] OTHER -> x

NAdd(x, y) ==
    CASE x.k = "unsupported" \/ y.k = "unsupported" -> Unsupported
      [] x.k = "nan" \/ y.k = "nan" -> NaN
      [] x.k = "inf" -> IF y.k = "ninf" THEN NaN ELSE PInf
      [] x.k = "ninf" -> IF y.k = "inf" THEN NaN ELSE NInf
      [] y.k = "inf" -> PInf
      [] y.k = "ninf" -> NInf
      [] y.s = 0 -> Surd(RAdd(x.a, y.a), x.s, x.r)
      [] x.s = 0 -> Surd(RAdd(x.a, y.a), y.s, y.r)
      [] x.r = y.r ->
            IF x.s + y.s = 0
            THEN Fin(RAdd(x.a, y.a))
            ELSE Surd(RAdd(x.a, y.a), x.s, RMul(Int2Rat(4), x.r))
      [] OTHER -> Unsupported

NSub(x, y) == NAdd(x, NNeg(y))

\* an infinity times a value of sign sg: nan when sg = 0
InfTimes(x, sg) ==
    IF sg = 0 THEN NaN ELSE IF (sg > 0) = (x.k = "inf") THEN PInf ELSE NInf

\* a finite value times a rational
NScale(x, q) == Surd(RMul(x.a, q), x.s * RSgn(q), RMul(x.r, RSq(q)))

NMul(x, y) ==
    CASE x.k = "unsupported" \/ y.k = "unsupported" -> Unsupported
      [] x.k = "nan" \/ y.k = "nan" -> NaN
      [] x.k # "fin" /\ y.k # "fin" -> IF x.k = y.k THEN PInf ELSE NInf
      [] x.k # "fin" -> InfTimes(x, NSgn(y))
      [] y.k # "fin" -> InfTimes(y, NSgn(x))
      [] y.s = 0 -> NScale(x, y.a)
      [] x.s = 0 -> NScale(y, x.a)
      [] x.a = Zero /\ y.a = Zero /\ x.r = y.r -> Fin(RMul(Int2Rat(x.s * y.s), x.r))
      [] x.a = Zero /\ y.a = Zero -> Surd(Zero, x.s * y.s, RMul(x.r, y.r))
      [] OTHER -> Unsupported

\* numpy's true division of float64: x / 0 is nan, inf or -inf, never an error
NpDiv(x, y) ==
    CASE x.k = "unsupported" \/ y.k = "unsupported" -> Unsupported
      [] x.k = "nan" \/ y.k = "nan" -> NaN
      [] x.k # "fin" /\ y.k # "fin" -> NaN
      [] y.k # "fin" -> Fin(Zero)
      [] NSgn(y) = 0 -> IF x.k = "fin" THEN InfTimes(PInf, NSgn(x)) ELSE x
      [] x.k # "fin" -> InfTimes(x, NSgn(y))
      [] y.s = 0 -> NScale(x, RInv(y.a))
      [] y.a = Zero /\ x.s = 0 ->
            Surd(Zero, RSgn(x.a) * y.s, RDiv(RSq(x.a), y.r))
      [] y.a = Zero /\ x.a = Zero -> Surd(Zero, x.s * y.s, RDiv(x.r, y.r))
      [] OTHER -> Unsupported

\* np.sqrt: nan for a negative argument
NpSqrt(x) ==
    CASE x.k = "inf" -> PInf
      [] x.k = "fin" /\ x.s = 0 ->
            IF RSgn(x.a) < 0 THEN NaN ELSE Surd(Zero, 1, x.a)
      [] x.k = "fin" -> Unsupported
      [] x.k = "unsupported" -> Unsupported
      [] OTHER -> NaN

\* s1*sqrt(r1) <= q for signed squares sq = s1*r1, by x |-> sgn(x)*x^2
RootLe(sq, q) == RLe(sq, RSignedSq(q))

\* x <= y; every comparison with nan is false
NLe(x, y) ==
    CASE x.k \in {"nan", "unsupported"} \/ y.k \in {"nan", "unsupported"} -> FALSE
      [] x.k = "ninf" \/ y.k = "inf" -> TRUE
      [] x.k = "inf" \/ y.k = "ninf" -> FALSE
      \* x.s*sqrt(x.r) - y.s*sqrt(y.r) <= d = y.a - x.a
      [] y.s = 0 -> RootLe(RootSq(x), RSub(y.a, x.a))
      [] x.s = 0 -> RootLe(RNeg(RootSq(y)), RSub(y.a, x.a))
      [] x.r = y.r ->
            RootLe(RMul(Int2Rat((x.s - y.s) * 2), x.r), RSub(y.a, x.a))
      [] OTHER ->
            LET d == RSub(y.a, x.a)
                su == RSgn(RSub(RootSq(x), RootSq(y)))
                \* u^2 - d^2 = (x.r + y.r - d^2) - 2*x.s*y.s*sqrt(x.r*y.r)
                e == RSub(RSq(d), RAdd(x.r, y.r))
                cross == RMul(Int2Rat(-4 * x.s * y.s), RMul(x.r, y.r))
                \* sign of u^2 - d^2
                sq == RSgn(RSub(cross, RSignedSq(e)))
            IN  IF su <= 0
                THEN RSgn(d) >= 0 \/ sq >= 0
                ELSE RSgn(d) >= 0 /\ sq <= 0

NLt(x, y) ==
    /\ x.k \notin {"nan", "unsupported"}
    /\ y.k \notin {"nan", "unsupported"}
    /\ ~NLe(y, x)

\* equality of values (nan equals nothing)
NEq(x, y) == NLe(x, y) /\ NLe(y, x)

---------------------------------------------------------------------------
(* scipy.stats.norm.ppf, tabulated at the quantiles the model's alphas     *)
(* reach (two decimals): ppf(q) for q = 1 - alpha/2 and q = 1 - alpha.     *)

Alphas == {Rat(1, 20), Rat(1, 5), Rat(4, 5)}

norm_ppf(q) ==
    CASE q = Rat(39, 40) -> Rat(196, 100)
      [] q = Rat(19, 20) -> Rat(164, 100)
      [] q = Rat(9, 10)  -> Rat(128, 100)
      [] q = Rat(4, 5)   -> Rat(84, 100)
      [] q = Rat(3, 5)   -> Rat(25, 100)
      [] q = Rat(1, 5)   -> Rat(-84, 100)

\* math.sqrt of a non-negative float
math_sqrt(q) == Surd(Zero, 1, q)

---------------------------------------------------------------------------
(* proportion.py: sample_size, confint                                     *)

\* popl_size: <<>> is None, <<N>> is the integer N
None == <<>>

\* the truth value Python gives `if popl_size:`
Truthy(popl_size) == popl_size # None /\ popl_size[1] # 0

\* int() of a rational: truncation towards zero
RTrunc(a) == IF a.n >= 0 THEN a.n \div a.d ELSE -((-a.n) \div a.d)

\* sample_size with int() truncation in place of math.ceil
sample_size_truncated(moe, prop, popl_size, alpha) ==
    LET cv == norm_ppf(RSub(One, RDiv(alpha, Int2Rat(2))))
        fpc == Truthy(popl_size)
        N == IF fpc THEN Int2Rat(popl_size[1]) ELSE Zero
        num == IF fpc
               THEN RMul(RMul(N, prop), RSub(One, prop))
               ELSE RMul(RMul(RSq(cv), prop), RSub(One, prop))
        denom == IF fpc
                 THEN RAdd(RDiv(RMul(RSub(N, One), RSq(moe)), RSq(cv)),
                           RMul(prop, RSub(One, prop)))
                 ELSE RSq(moe)
    IN  [cv |-> cv, fpc |-> fpc, num |-> num, denom |-> denom,
         ret |-> RTrunc(RDiv(num, denom))]

\* sample_size returning ceil(denom/num), the operands of the division swapped
sample_size_swapped(moe, prop, popl_size, alpha) ==
    LET cv == norm_ppf(RSub(One, RDiv(alpha, Int2Rat(2))))
        fpc == Truthy(popl_size)
        N == IF fpc THEN Int2Rat(popl_size[1]) ELSE Zero
        num == IF fpc
               THEN RMul(RMul(N, prop), RSub(One, prop))
               ELSE RMul(RMul(RSq(cv), prop), RSub(One, prop))
        denom == IF fpc
                 THEN RAdd(RDiv(RMul(RSub(N, One), RSq(moe)), RSq(cv)),
                           RMul(prop, RSub(One, prop)))
                 ELSE RSq(moe)
    IN  [cv |-> cv, fpc |-> fpc, num |-> num, denom |-> denom,
         ret |-> RCeil(RDiv(denom, num))]

\* sample_size with the finite-population numerator N*prop, (1-prop) dropped
sample_size_dropped_factor(moe, prop, popl_size, alpha) ==
    LET cv == norm_ppf(RSub(One, RDiv(alpha, Int2Rat(2))))
        fpc == Truthy(popl_size)
        N == IF fpc THEN Int2Rat(popl_size[1]) ELSE Zero
        num == IF fpc
               THEN RMul(N, prop)
               ELSE RMul(RMul(RSq(cv), prop), RSub(One, prop))
        denom == IF fpc
                 THEN RAdd(RDiv(RMul(RSub(N, One), RSq(moe)), RSq(cv)),
                           RMul(prop, RSub(One, prop)))
                 ELSE RSq(moe)
    IN  [cv |-> cv, fpc |-> fpc, num |-> num, denom |-> denom,
         ret |-> RCeil(RDiv(num, denom))]

\* the locals of sample_size at its return; ret is the value returned
sample_size(moe, prop, popl_size, alpha) ==
    LET cv == norm_ppf(RSub(One, RDiv(alpha, Int2Rat(2))))
        fpc == Truthy(popl_size)
        N == IF fpc THEN Int2Rat(popl_size[1]) ELSE Zero
        num == IF fpc
               THEN RMul(RMul(N, prop), RSub(One, prop))
               ELSE RMul(RMul(RSq(cv), prop), RSub(One, prop))
        denom == IF fpc
                 THEN RAdd(RDiv(RMul(RSub(N, One), RSq(moe)), RSq(cv)),
                           RMul(prop, RSub(One, prop)))
                 ELSE RSq(moe)
    IN  [cv |-> cv, fpc |-> fpc, num |-> num, denom |-> denom,
         ret |-> RCeil(RDiv(num, denom))]

\* confint with its bounds clamped to [0, 1]
confint_clamped(prop, n, alpha) ==
    LET cv == norm_ppf(RSub(One, RDiv(alpha, Int2Rat(2))))
        var == RDiv(RMul(prop, RSub(One, prop)), Int2Rat(n))
        moe == NMul(Fin(cv), math_sqrt(var))
        lo == NSub(Fin(prop), moe)
        hi == NAdd(Fin(prop), moe)
    IN  [cv |-> cv, var |-> var, moe |-> moe,
         ci_lower |-> IF NLt(lo, Fin(Zero)) THEN Fin(Zero) ELSE lo,
         ci_upper |-> IF NLt(Fin(One), hi) THEN Fin(One) ELSE hi]

\* the locals of confint at its return; (ci_lower, ci_upper) is returned
confint(prop, n, alpha) ==
    LET cv == norm_ppf(RSub(One, RDiv(alpha, Int2Rat(2))))
        var == RDiv(RMul(prop, RSub(One, prop)), Int2Rat(n))
        moe == NMul(Fin(cv), math_sqrt(var))
    IN  [cv |-> cv, var |-> var, moe |-> moe,
         ci_lower |-> NSub(Fin(prop), moe),
         ci_upper |-> NAdd(Fin(prop), moe)]

---------------------------------------------------------------------------
(* misc.py: pop_prop_sample_size, pop_prop_confint (confidence level cl    *)
(* in place of alpha)                                                      *)

pop_prop_sample_size(d, p, N, cl) ==
    LET alpha == RSub(One, cl)
        z == norm_ppf(RSub(One, RDiv(alpha, Int2Rat(2))))
        fpc == Truthy(N)
        NN == IF fpc THEN Int2Rat(N[1]) ELSE Zero
        num == IF fpc
               THEN RMul(RMul(NN, p), RSub(One, p))
               ELSE RMul(RMul(RSq(z), p), RSub(One, p))
        denom == IF fpc
                 THEN RAdd(RDiv(RMul(RSub(NN, One), RSq(d)), RSq(z)),
                           RMul(p, RSub(One, p)))
                 ELSE RSq(d)
    IN  [cv |-> z, fpc |-> fpc, num |-> num, denom |-> denom,
         ret |-> RCeil(RDiv(num, denom))]

pop_prop_confint(p, n, cl) ==
    LET alpha == RSub(One, cl)
        z == norm_ppf(RSub(One, RDiv(alpha, Int2Rat(2))))
        var_p == RDiv(RMul(p, RSub(One, p)), Int2Rat(n))
        d == NMul(Fin(z), math_sqrt(var_p))
    IN  [cv |-> z, var |-> var_p, moe |-> d,
         ci_lower |-> NSub(Fin(p), d),
         ci_upper |-> NAdd(Fin(p), d)]

---------------------------------------------------------------------------
(* Strings are sequences of characters; str.lower() maps them character    *)
(* by character.                                                           *)

UpperCase == <<"A", "B", "C", "D", "E", "F", "G", "H", "I", "J", "K", "L", "M",
               "N", "O", "P", "Q", "R", "S", "T", "U", "V", "W", "X", "Y", "Z">>

LowerCase == <<"a", "b", "c", "d", "e", "f", "g", "h", "i", "j", "k", "l", "m",
               "n", "o", "p", "q", "r", "s", "t", "u", "v", "w", "x", "y", "z">>

lower_char(c) ==
    IF \E j \in 1..Len(UpperCase) : UpperCase[j] = c
    THEN LowerCase[CHOOSE j \in 1..Len(UpperCase) : UpperCase[j] = c]
    ELSE c

str_lower(str) == [i \in 1..Len(str) |-> lower_char(str[i])]

two_sided == <<"t", "w", "o", "-", "s", "i", "d", "e", "d">>

greater == <<"g", "r", "e", "a", "t", "e", "r">>

less == <<"l", "e", "s", "s">>

---------------------------------------------------------------------------
(* scipy.stats tail functions, tabulated to two decimals as step functions *)
(* of |z| (exact at z = 0), and the Student-t quantiles by whole degrees   *)
(* of freedom.                                                             *)

NAbs(x) == IF IsFin(x) /\ NSgn(x) < 0 THEN NNeg(x) ELSE x

\* steps at |z| = 0, 1/2, 1, 3/2, 2, 5/2, 3 (hundredths)
NormSfSteps == <<50, 31, 16, 7, 2, 1, 0>>

\* the step |z| falls on: the largest i with (i-1)/2 <= |z|
StepOf(az, n) ==
    CHOOSE i \in 1..n :
        /\ NLe(Fin(Rat(i - 1, 2)), az)
        /\ \A j \in (i + 1)..n : ~NLe(Fin(Rat(j - 1, 2)), az)

norm_sf(z) ==
    LET upper == Rat(NormSfSteps[StepOf(NAbs(z), Len(NormSfSteps))], 100)
    IN  IF NSgn(z) >= 0 THEN upper ELSE RSub(One, upper)

norm_cdf(z) == RSub(One, norm_sf(z))

\* t.sf(|t|, dof) at |t| = 0, 1/2, 1, 3/2, 2, 5/2, 3, for dof 1, 2, 3, 4 and more
TSfSteps == << <<50, 35, 25, 19, 15, 12, 10>>,
               <<50, 33, 21, 14, 9, 6, 5>>,
               <<50, 33, 20, 12, 7, 4, 3>>,
               <<50, 32, 19, 10, 6, 3, 2>> >>

\* the table row of a degrees-of-freedom value: floor(dof), within 1..rows
DofRow(dof, rows) ==
    LET f == RFloor(dof.a)
    IN  IF f < 1 THEN 1 ELSE IF f > rows THEN rows ELSE f

t_sf(t, dof) ==
    IF ~IsFin(dof) \/ ~IsFin(t) THEN NaN
    ELSE LET row == TSfSteps[DofRow(dof, Len(TSfSteps))]
             upper == Rat(row[StepOf(NAbs(t), Len(row))], 100)
         IN  Fin(IF NSgn(t) >= 0 THEN upper ELSE RSub(One, upper))

t_cdf(t, dof) ==
    IF ~IsFin(dof) \/ ~IsFin(t) THEN NaN
    ELSE NSub(Fin(One), t_sf(t, dof))

\* t.ppf(q, dof) in hundredths for dof = 1..6, q = .975, .95, .9, .8, .6
TPpfRows(q) ==
    CASE q = Rat(39, 40) -> <<1271, 430, 318, 278, 257, 245>>
      [] q = Rat(19, 20) -> <<631, 292, 235, 213, 202, 194>>
      [] q = Rat(9, 10)  -> <<308, 189, 164, 153, 148, 144>>
      [] q = Rat(4, 5)   -> <<138, 106, 98, 94, 92, 91>>
      [] q = Rat(3, 5)   -> <<32, 29, 28, 27, 27, 26>>
      [] q = Rat(1, 5)   -> <<-138, -106, -98, -94, -92, -91>>

t_ppf(q, dof) ==
    IF ~IsFin(dof) THEN NaN
    ELSE LET row == TPpfRows(q)
         IN  Fin(Rat(row[DofRow(dof, Len(row))], 100))

---------------------------------------------------------------------------
(* misc.py: confint, _ztest_p, ztest_2prop                                 *)

\* an exception leaves the call with no result
Raise(exc) == [status |-> exc]

\* confint with the signs of the two bounds exchanged
misc_confint_swapped(x, stat, se, ha) ==
    [ci_lwr |-> NAdd(x, NMul(stat, se)),
     ci_upr |-> NSub(x, NMul(stat, se))]

misc_confint(x, stat, se, ha) ==
    [ci_lwr |-> NSub(x, NMul(stat, se)),
     ci_upr |-> NAdd(x, NMul(stat, se))]

\* _ztest_p with the two-sided p-value not doubled
ztest_p_one_tail(z, ha) ==
    IF ha = less THEN [status |-> "ok", p |-> norm_cdf(z)]
    ELSE IF ha = greater THEN [status |-> "ok", p |-> norm_sf(z)]
    ELSE IF ha = two_sided
         THEN [status |-> "ok", p |-> norm_sf(NAbs(z))]
    ELSE Raise("UnboundLocalError")

\* `return p` with p never assigned is an UnboundLocalError
ztest_p(z, ha) ==
    IF ha = less THEN [status |-> "ok", p |-> norm_cdf(z)]
    ELSE IF ha = greater THEN [status |-> "ok", p |-> norm_sf(z)]
    ELSE IF ha = two_sided
         THEN [status |-> "ok", p |-> RMul(Int2Rat(2), norm_sf(NAbs(z)))]
    ELSE Raise("UnboundLocalError")

ztest_valid_ha == {two_sided, <<"t">>, greater, <<"g">>, less, <<"l">>}

\* the locals of ztest_2prop at its return, or the exception it raises
ztest_2prop(x_treat, n_treat, x_ctrl, n_ctrl, alpha, ha0) ==
    LET ha == str_lower(ha0)
        p_treat == Rat(x_treat, n_treat)
        p_ctrl == Rat(x_ctrl, n_ctrl)
        p_pooled == Rat(x_treat + x_ctrl, n_treat + n_ctrl)
        se == math_sqrt(RMul(RMul(p_pooled, RSub(One, p_pooled)),
                             RAdd(Rat(1, n_treat), Rat(1, n_ctrl))))
        diff == RSub(p_treat, p_ctrl)
        \* Python's float division: se = 0 raises (below) before z is used
        z == NpDiv(Fin(diff), se)
        pv == ztest_p(z, ha)
        one_sided == ha \in {greater, less}
        z_critical == norm_ppf(RSub(One,
                          RDiv(alpha, Int2Rat(1 + (IF one_sided THEN 0 ELSE 1)))))
        ci == misc_confint(Fin(diff), Fin(z_critical), se, ha)
        lift == RSub(RDiv(p_treat, p_ctrl), One)
    IN  IF ha \notin ztest_valid_ha THEN Raise("ValueError")
        ELSE IF NIsZero(se) THEN Raise("ZeroDivisionError")
        ELSE IF pv.status # "ok" THEN Raise(pv.status)
        ELSE IF p_ctrl = Zero THEN Raise("ZeroDivisionError")
        ELSE [status |-> "ok", ha |-> ha, p_treat |-> p_treat, p_ctrl |-> p_ctrl,
              se |-> se, z |-> z, p |-> Fin(pv.p), z_critical |-> Fin(z_critical),
              diff |-> Fin(diff), ci_lwr |-> ci.ci_lwr, ci_upr |-> ci.ci_upr,
              lift |-> Fin(lift),
              lift_lwr |-> NpDiv(ci.ci_lwr, Fin(p_ctrl)),
              lift_upr |-> NpDiv(ci.ci_upr, Fin(p_ctrl)),
              sig |-> RLe(pv.p, alpha)]

---------------------------------------------------------------------------
(* misc.py: _ttest_p, welch_ttest                                          *)

ttest_p(t, dof, ha) ==
    IF ha = less THEN [status |-> "ok", p |-> t_cdf(t, dof)]
    ELSE IF ha = greater THEN [status |-> "ok", p |-> t_sf(t, dof)]
    ELSE IF ha = two_sided
         THEN [status |-> "ok", p |-> NMul(Fin(Int2Rat(2)), t_sf(NAbs(t), dof))]
    ELSE Raise("UnboundLocalError")

welch_valid_ha == {two_sided, greater, less}

RECURSIVE SeqSum(_)
SeqSum(xs) == IF xs = <<>> THEN Zero ELSE RAdd(xs[1], SeqSum(Tail(xs)))

\* pd.Series.mean()
series_mean(xs) == RDiv(SeqSum([i \in 1..Len(xs) |-> Int2Rat(xs[i])]), Int2Rat(Len(xs)))

\* pd.Series.var(ddof=1), for at least two observations
series_var(xs) ==
    LET m == series_mean(xs)
    IN  RDiv(SeqSum([i \in 1..Len(xs) |-> RSq(RSub(Int2Rat(xs[i]), m))]),
             Int2Rat(Len(xs) - 1))

\* the locals of welch_ttest at its return, or the exception it raises
welch_ttest(treat, ctrl, alpha, ha0) ==
    LET ha == str_lower(ha0)
        n_treat == Len(treat)
        n_ctrl == Len(ctrl)
        mean_treat == series_mean(treat)
        mean_ctrl == series_mean(ctrl)
        var_treat == series_var(treat)
        var_ctrl == series_var(ctrl)
        vn_treat == RDiv(var_treat, Int2Rat(n_treat))
        vn_ctrl == RDiv(var_ctrl, Int2Rat(n_ctrl))
        se2 == RAdd(vn_treat, vn_ctrl)
        se == math_sqrt(se2)
        diff == RSub(mean_treat, mean_ctrl)
        t == NpDiv(Fin(diff), se)
        dof == NpDiv(Fin(RSq(se2)),
                     Fin(RAdd(RDiv(RSq(vn_treat), Int2Rat(n_treat - 1)),
                              RDiv(RSq(vn_ctrl), Int2Rat(n_ctrl - 1)))))
        pv == ttest_p(t, dof, ha)
        one_sided == ha \in {greater, less}
        t_critical == t_ppf(RSub(One,
                          RDiv(alpha, Int2Rat(1 + (IF one_sided THEN 0 ELSE 1)))), dof)
        ci == misc_confint(Fin(diff), t_critical, se, ha)
    IN  IF ha \notin welch_valid_ha THEN Raise("ValueError")
        ELSE [status |-> "ok", ha |-> ha, mean_treat |-> mean_treat,
              mean_ctrl |-> mean_ctrl,
              se |-> se, t |-> t, dof |-> dof, p |-> pv.p, t_critical |-> t_critical,
              diff |-> Fin(diff), ci_lwr |-> ci.ci_lwr, ci_upr |-> ci.ci_upr,
              lift |-> NSub(NpDiv(Fin(mean_treat), Fin(mean_ctrl)), Fin(One)),
              lift_lwr |-> NpDiv(ci.ci_lwr, Fin(mean_ctrl)),
              lift_upr |-> NpDiv(ci.ci_upr, Fin(mean_ctrl)),
              sig |-> NLe(pv.p, Fin(alpha))]

---------------------------------------------------------------------------
(* numpy arrays: [ok |-> TRUE, v |-> <<elements>>]; an elementwise         *)
(* operation on shapes (n,) and (m,) broadcasts when n = m, n = 1 or       *)
(* m = 1 and raises ValueError otherwise ([ok |-> FALSE]).                 *)

Arr(v) == [ok |-> TRUE, v |-> v]

BadShape == [ok |-> FALSE, v |-> <<>>]

Scalar(x) == Arr(<<x>>)

\* numpy's -, * and / on two elements
np_apply(f, x, y) ==
    CASE f = "sub" -> NSub(x, y)
      [] f = "mul" -> NMul(x, y)
      [] f = "div" -> NpDiv(x, y)

\* element i of an array, a length-1 array being stretched to any length
np_at(A, i) == IF Len(A.v) = 1 THEN A.v[1] ELSE A.v[i]

\* the first n elements of the result of an element-wise operator
RECURSIVE np_zip(_, _, _, _)
np_zip(f, A, B, n) ==
    IF n = 0 THEN <<>>
    ELSE Append(np_zip(f, A, B, n - 1), np_apply(f, np_at(A, n), np_at(B, n)))

\* the shape rule of an element-wise operator on two arrays: equal lengths
\* pair up, a length-1 array is broadcast over the other, anything else is
\* an error
np_elementwise(f, A, B) ==
    IF ~A.ok \/ ~B.ok THEN BadShape
    ELSE IF Len(A.v) = Len(B.v) \/ Len(A.v) = 1 \/ Len(B.v) = 1
         THEN Arr(np_zip(f, A, B, IF Len(A.v) = 1 THEN Len(B.v) ELSE Len(A.v)))
    ELSE BadShape

np_sub(A, B) == np_elementwise("sub", A, B)

np_mul(A, B) == np_elementwise("mul", A, B)

np_div(A, B) == np_elementwise("div", A, B)

RECURSIVE NSeqSum(_)
NSeqSum(xs) == IF xs = <<>> THEN Fin(Zero) ELSE NAdd(xs[1], NSeqSum(Tail(xs)))

\* np.sum of an array, as a scalar
np_sum(A) == IF A.ok THEN Scalar(NSeqSum(A.v)) ELSE BadShape

\* an array of integers or of rationals as an array of numbers
IntArr(xs) == Arr([i \in 1..Len(xs) |-> Fin(Int2Rat(xs[i]))])

RatArr(xs) == Arr([i \in 1..Len(xs) |-> Fin(xs[i])])

---------------------------------------------------------------------------
(* proportion.py: strat_proportion, strat_confint                          *)

strat_proportion(props, strat_sizes) ==
    LET popl_size == np_sum(IntArr(strat_sizes))
        weights == np_div(IntArr(strat_sizes), popl_size)
        total == np_sum(np_mul(weights, RatArr(props)))
    IN  IF total.ok
        THEN [status |-> "ok", ret |-> total.v[1]]
        ELSE Raise("ValueError")

\* the tail of strat_confint: se, moe and the bounds, from the critical
\* value, the weighted proportion and the summed variance terms
strat_confint_bounds(cv, prop, total) ==
    LET se == NpSqrt(total.v[1])
        moe == NMul(Fin(cv), se)
    IN  IF prop.status # "ok" \/ ~total.ok THEN Raise("ValueError")
        ELSE [status |-> "ok", prop |-> prop.ret, total |-> total.v[1],
              se |-> se, moe |-> moe,
              ci_lower |-> NSub(prop.ret, moe),
              ci_upper |-> NAdd(prop.ret, moe)]

\* the locals of strat_confint at its return, or the exception it raises
strat_confint(props, sample_sizes, strat_sizes, alpha) ==
    LET cv == norm_ppf(RSub(One, RDiv(alpha, Int2Rat(2))))
        one == Scalar(Fin(One))
        popl_size == np_sum(IntArr(strat_sizes))
        n == IntArr(sample_sizes)
        Nh == IntArr(strat_sizes)
        p == RatArr(props)
        var == np_mul(np_mul(np_div(n, np_sub(n, one)), p), np_sub(one, p))
        inv == np_div(one, popl_size)
        terms == np_div(np_mul(np_mul(np_mul(np_mul(Nh, Nh), np_mul(inv, inv)),
                                      np_sub(one, np_div(n, Nh))),
                               var),
                        n)
    IN  strat_confint_bounds(cv, strat_proportion(props, strat_sizes), np_sum(terms))

---------------------------------------------------------------------------
(* The caller.                                                             *)

\* margins of error, proportions and population sizes the caller passes
Moes == {Rat(1, 20), Rat(1, 2), Rat(9, 10), Rat(19, 20)}

Props == {Rat(1, 10), Rat(1, 2), Rat(9, 10)}

Popls == {None} \cup {<<N>> : N \in 0..MaxPopl}

\* alternative-hypothesis tokens the caller passes
HaTokens == {two_sided,
             <<"T", "w", "o", "-", "S", "i", "d", "e", "d">>,
             <<"t">>, <<"T">>,
             greater, <<"G", "R", "E", "A", "T", "E", "R">>, <<"g">>, <<"G">>,
             less, <<"L", "e", "s", "s">>, <<"l">>, <<"L">>,
             <<"x">>, <<"t", "w", "o">>, <<>>}

\* observations of the welch_ttest samples
SampleValues == {-1, 2}

Samples == UNION {[1..n -> SampleValues] : n \in 2..MaxSamples}

\* per-stratum proportions, sample sizes and stratum sizes
StratProps == {Rat(1, 4), Rat(1, 2)}

StratSampleSizes == {1, 5}

StratSizes == {4, 10}

ArraysOf(S) == UNION {[1..n -> S] : n \in 1..MaxStrata}

NoArgs == <<>>

NoOut == <<>>

NoCall == [op |-> "none", args |-> NoArgs, out |-> NoOut]

Init ==
    /\ pc = "idle"
    /\ op = "none"
    /\ args = NoArgs
    /\ out = NoOut
    /\ prev = NoCall

Call_sample_size ==
    /\ pc = "idle"
    /\ \E moe \in Moes, prop \in Props, popl_size \in Popls, alpha \in Alphas :
          /\ args' = [moe |-> moe, prop |-> prop, popl_size |-> popl_size,
                      alpha |-> alpha]
          /\ out' = sample_size(moe, prop, popl_size, alpha)
    /\ op' = "sample_size"
    /\ pc' = "done"
    /\ UNCHANGED prev

Call_pop_prop_sample_size ==
    /\ pc = "idle"
    /\ \E moe \in Moes, prop \in Props, popl_size \in Popls, alpha \in Alphas :
          /\ args' = [moe |-> moe, prop |-> prop, popl_size |-> popl_size,
                      alpha |-> alpha]
          /\ out' = pop_prop_sample_size(moe, prop, popl_size, RSub(One, alpha))
    /\ op' = "pop_prop_sample_size"
    /\ pc' = "done"
    /\ UNCHANGED prev

Call_confint ==
    /\ pc = "idle"
    /\ \E prop \in Props, n \in 1..MaxN, alpha \in Alphas :
          /\ args' = [prop |-> prop, n |-> n, alpha |-> alpha]
          /\ out' = confint(prop, n, alpha)
    /\ op' = "confint"
    /\ pc' = "done"
    /\ UNCHANGED prev

Call_pop_prop_confint ==
    /\ pc = "idle"
    /\ \E prop \in Props, n \in 1..MaxN, alpha \in Alphas :
          /\ args' = [prop |-> prop, n |-> n, alpha |-> alpha]
          /\ out' = pop_prop_confint(prop, n, RSub(One, alpha))
    /\ op' = "pop_prop_confint"
    /\ pc' = "done"
    /\ UNCHANGED prev

Call_ztest_2prop ==
    /\ pc = "idle"
    /\ \E n_treat \in 1..MaxCount, n_ctrl \in 1..MaxCount, alpha \in Alphas,
          ha \in HaTokens :
          \E x_treat \in 0..n_treat, x_ctrl \in 0..n_ctrl :
             /\ args' = [x_treat |-> x_treat, n_treat |-> n_treat,
                         x_ctrl |-> x_ctrl, n_ctrl |-> n_ctrl,
                         alpha |-> alpha, ha |-> ha]
             /\ out' = ztest_2prop(x_treat, n_treat, x_ctrl, n_ctrl, alpha, ha)
    /\ op' = "ztest_2prop"
    /\ pc' = "done"
    /\ UNCHANGED prev

Call_welch_ttest ==
    /\ pc = "idle"
    /\ \E treat \in Samples, ctrl \in Samples, alpha \in Alphas, ha \in HaTokens :
          /\ args' = [treat |-> treat, ctrl |-> ctrl, alpha |-> alpha, ha |-> ha]
          /\ out' = welch_ttest(treat, ctrl, alpha, ha)
    /\ op' = "welch_ttest"
    /\ pc' = "done"
    /\ UNCHANGED prev

Call_strat_proportion ==
    /\ pc = "idle"
    /\ \E props \in ArraysOf(StratProps), strat_sizes \in ArraysOf(StratSizes) :
          /\ args' = [props |-> props, strat_sizes |-> strat_sizes]
          /\ out' = strat_proportion(props, strat_sizes)
    /\ op' = "strat_proportion"
    /\ pc' = "done"
    /\ UNCHANGED prev

Call_strat_confint ==
    /\ pc = "idle"
    /\ \E props \in ArraysOf(StratProps),
          sample_sizes \in ArraysOf(StratSampleSizes),
          strat_sizes \in ArraysOf(StratSizes), alpha \in {Rat(1, 20)} :
          /\ args' = [props |-> props, sample_sizes |-> sample_sizes,
                      strat_sizes |-> strat_sizes, alpha |-> alpha]
          /\ out' = strat_confint(props, sample_sizes, strat_sizes, alpha)
    /\ op' = "strat_confint"
    /\ pc' = "done"
    /\ UNCHANGED prev

\* the call's values are discarded
Return ==
    /\ pc = "done"
    /\ pc' = "idle"
    /\ op' = "none"
    /\ args' = NoArgs
    /\ out' = NoOut
    /\ UNCHANGED prev

\* the caller keeps the call it just made, to compare the next one with it
ReturnKeep ==
    /\ pc = "done"
    /\ pc' = "idle"
    /\ prev' = [op |-> op, args |-> args, out |-> out]
    /\ op' = "none"
    /\ args' = NoArgs
    /\ out' = NoOut

Next ==
    \/ Call_sample_size
    \/ Call_pop_prop_sample_size
    \/ Call_confint
    \/ Call_pop_prop_confint
    \/ Call_ztest_2prop
    \/ Call_welch_ttest
    \/ Call_strat_proportion
    \/ Call_strat_confint
    \/ Return

Spec == Init /\ [][Next]_vars

\* two calls in a row of the sample-size functions
NextSize ==
    \/ Call_sample_size
    \/ Call_pop_prop_sample_size
    \/ ReturnKeep

SpecSize == Init /\ [][NextSize]_vars

---------------------------------------------------------------------------
(* The claims.                                                             *)

InUnit(q) == RLt(Zero, q) /\ RLt(q, One)

Done(name) == pc = "done" /\ op = name

\* the full word a token of ha stands for, by the documented aliases
FullWord(ha) ==
    CASE str_lower(ha) \in {two_sided, <<"t">>} -> two_sided
      [] str_lower(ha) \in {greater, <<"g">>}   -> greater
      [] str_lower(ha) \in {less, <<"l">>}      -> less

IsAlias(ha) == str_lower(ha) \in {two_sided, <<"t">>, greater, <<"g">>, less, <<"l">>}

\* what ztest_2prop does on the call's counts and alpha with another ha
ZtestWith(ha) ==
    ztest_2prop(args.x_treat, args.n_treat, args.x_ctrl, args.n_ctrl, args.alpha, ha)

\* C1: ztest_2prop accepts every alias of ha in any letter case and treats
\* it as its full word: wherever the call with the full word completes, the
\* call with the alias completes with the same statistic, p-value and
\* interval; any other token fails with ValueError.
C1_AliasesActAsFullWords ==
    Done("ztest_2prop") =>
        IF IsAlias(args.ha)
        THEN LET ref == ZtestWith(FullWord(args.ha))
             IN  ref.status = "ok" =>
                    /\ out.status = "ok"
                    /\ out.z = ref.z
                    /\ out.p = ref.p
                    /\ out.ci_lwr = ref.ci_lwr
                    /\ out.ci_upr = ref.ci_upr
        ELSE out.status = "ValueError"

\* the half-width upper - prop of the interval confint returns
HalfWidth(prop, n, alpha) == NSub(confint(prop, n, alpha).ci_upper, Fin(prop))

InfinitePopulationCall ==
    /\ Done("sample_size")
    /\ args.popl_size = None
    /\ InUnit(args.moe) /\ InUnit(args.prop) /\ InUnit(args.alpha)

\* C2: with n = sample_size(moe, prop, None, alpha), n is a positive integer,
\* the half-width of confint(prop, n, alpha) is at most moe, and the
\* half-width of confint(prop, n - 1, alpha) (when n > 1) exceeds moe.
C2_SampleSizeMeetsPrecision ==
    InfinitePopulationCall =>
        /\ out.ret \in Nat /\ out.ret >= 1
        /\ NLe(HalfWidth(args.prop, out.ret, args.alpha), Fin(args.moe))
        /\ out.ret > 1 =>
              NLt(Fin(args.moe), HalfWidth(args.prop, out.ret - 1, args.alpha))

\* a call that returned a sample size for which one observation fewer is too few
C2_Witness == InfinitePopulationCall /\ out.ret > 1

\* the previous call was the same function with the same prop, popl_size
\* and alpha and a smaller moe
LargerMoeThanPrev ==
    /\ pc = "done"
    /\ op \in {"sample_size", "pop_prop_sample_size"}
    /\ prev.op = op
    /\ prev.args.prop = args.prop
    /\ prev.args.popl_size = args.popl_size
    /\ prev.args.alpha = args.alpha
    /\ RLt(prev.args.moe, args.moe)

\* C3 (as claimed): sample_size strictly decreases as moe increases, prop,
\* popl_size and alpha fixed.
C3_StrictlyDecreasing == LargerMoeThanPrev => prev.out.ret > out.ret

\* C3 (amended): sample_size never increases as moe increases, prop,
\* popl_size and alpha fixed.
C3_NonIncreasing == LargerMoeThanPrev => prev.out.ret >= out.ret

\* two calls with moe1 < moe2 of which the second returned less
C3_Witness == LargerMoeThanPrev /\ prev.out.ret > out.ret

ConfintCall ==
    /\ pc = "done"
    /\ op \in {"confint", "pop_prop_confint"}
    /\ args.n > 0
    /\ InUnit(args.prop) /\ InUnit(args.alpha)

\* C4: confint returns lower < prop < upper, strictly, and never clamps the
\* bounds to [0, 1]: they are prop -/+ moe with moe^2 = cv^2 * prop(1-prop)/n,
\* whether or not that leaves [0, 1].
C4_ConfintStrictAndUnclamped ==
    ConfintCall =>
        LET below == NSub(Fin(args.prop), out.ci_lower)
            above == NSub(out.ci_upper, Fin(args.prop))
            moe2 == RDiv(RMul(RSq(out.cv), RMul(args.prop, RSub(One, args.prop))),
                         Int2Rat(args.n))
        IN  /\ NLt(out.ci_lower, Fin(args.prop))
            /\ NLt(Fin(args.prop), out.ci_upper)
            /\ NEq(below, above)
            /\ NEq(NMul(above, above), Fin(moe2))

\* a returned interval that leaves [0, 1]
C4_Witness ==
    /\ ConfintCall
    /\ NLt(out.ci_lower, Fin(Zero)) \/ NLt(Fin(One), out.ci_upper)

IdenticalGroups ==
    /\ Done("ztest_2prop")
    /\ args.ha = two_sided
    /\ args.x_treat = args.x_ctrl
    /\ args.n_treat = args.n_ctrl

ZeroStatistic ==
    /\ out.status = "ok"
    /\ NEq(out.z, Fin(Zero))
    /\ NEq(out.p, Fin(One))
    /\ NEq(out.lift, Fin(Zero))

\* C5 (as claimed): ztest_2prop(x, n, x, n) with ha = 'two-sided' yields
\* z = 0, p = 1 and lift = 0 for every 0 <= x <= n, n > 0.
C5_IdenticalGroupsAnyCount == IdenticalGroups => ZeroStatistic

\* C5 (amended): the same for every 0 < x < n; with x = 0 or x = n the
\* pooled standard error is 0 and the call ends in ZeroDivisionError.
C5_IdenticalGroupsInteriorCount ==
    IdenticalGroups =>
        IF 0 < args.x_treat /\ args.x_treat < args.n_treat
        THEN ZeroStatistic
        ELSE out.status = "ZeroDivisionError"

\* identical groups with an interior count, the call completed
C5_Witness ==
    /\ IdenticalGroups
    /\ 0 < args.x_treat /\ args.x_treat < args.n_treat
    /\ out.status = "ok"

\* a completed call of one of the two tests, and its values by one name
TestDone ==
    /\ pc = "done"
    /\ op \in {"ztest_2prop", "welch_ttest"}
    /\ out.status = "ok"

Critical == IF op = "ztest_2prop" THEN out.z_critical ELSE out.t_critical

Treat == IF op = "ztest_2prop" THEN Fin(out.p_treat) ELSE Fin(out.mean_treat)

Ctrl == IF op = "ztest_2prop" THEN Fin(out.p_ctrl) ELSE Fin(out.mean_ctrl)

\* C6: in every completed two-sided call of ztest_2prop and welch_ttest with
\* a non-negative critical value, lower <= treat - ctrl <= upper, and both
\* bounds lie critical_value * se from treat - ctrl.
C6_IntervalContainsEstimate ==
    (TestDone /\ out.ha = two_sided /\ NLe(Fin(Zero), Critical)) =>
        LET point == NSub(Treat, Ctrl)
            half == NMul(Critical, out.se)
        IN  /\ NLe(out.ci_lwr, point)
            /\ NLe(point, out.ci_upr)
            /\ NEq(NSub(point, out.ci_lwr), half)
            /\ NEq(NSub(out.ci_upr, point), half)

\* a completed two-sided Welch test whose interval has positive width
C6_Witness ==
    /\ TestDone
    /\ op = "welch_ttest"
    /\ out.ha = two_sided
    /\ NLt(Fin(Zero), Critical)
    /\ NLt(out.ci_lwr, out.ci_upr)

\* some two of the arrays passed differ in length
LengthsDiffer ==
    IF op = "strat_proportion"
    THEN Len(args.props) # Len(args.strat_sizes)
    ELSE \/ Len(args.props) # Len(args.strat_sizes)
         \/ Len(args.props) # Len(args.sample_sizes)
         \/ Len(args.sample_sizes) # Len(args.strat_sizes)

\* C7: strat_proportion and strat_confint fail, returning no value, whenever
\* two of their array inputs differ in length, a length-1 array included.
C7_UnequalLengthsFail ==
    (pc = "done" /\ op \in {"strat_proportion", "strat_confint"} /\ LengthsDiffer)
        => out.status # "ok"

\* some stratum is sampled at most once, or more often than it has members
BadStratum ==
    /\ Len(args.sample_sizes) = Len(args.strat_sizes)
    /\ \E i \in 1..Len(args.sample_sizes) :
          \/ args.sample_sizes[i] <= 1
          \/ args.sample_sizes[i] > args.strat_sizes[i]

\* C8: strat_confint fails with an invalid-argument error, returning no
\* interval, whenever some stratum has sample_size_i <= 1 or
\* sample_size_i > strat_size_i.
C8_BadStratumFails ==
    (Done("strat_confint") /\ BadStratum) => out.status = "ValueError"

\* C9: in every completed call of ztest_2prop and welch_ttest with a
\* non-negative critical value and a non-zero control estimate,
\* lift_lwr <= lift <= lift_upr, whatever the sign of the control estimate.
C9_LiftIntervalOrdered ==
    (TestDone /\ NLe(Fin(Zero), Critical) /\ ~NEq(Ctrl, Fin(Zero))) =>
        /\ NLe(out.lift_lwr, out.lift)
        /\ NLe(out.lift, out.lift_upr)

\* the same function on the call's moe, prop and alpha with popl_size = None
InfiniteRet ==
    IF op = "sample_size"
    THEN sample_size(args.moe, args.prop, None, args.alpha).ret
    ELSE pop_prop_sample_size(args.moe, args.prop, None, RSub(One, args.alpha)).ret

SampleSizeCall ==
    /\ pc = "done"
    /\ op \in {"sample_size", "pop_prop_sample_size"}
    /\ InUnit(args.moe) /\ InUnit(args.prop) /\ InUnit(args.alpha)

=============================================================================
